---- MODULE Spec2Model ----
(***************************************************************************)
(* Builder / validation subsystem of todoist-core (src/todoist-core/src/   *)
(* types).  Every entity record (Item, Project, Section, Label) is made by *)
(* the build() of its staging builder and can be turned back into a        *)
(* builder by to_builder(); a DueDate or Filter by its builder only.  The  *)
(* builders are plain single-owner values:                                 *)
(* a behaviour of this model is one calling session that stages one        *)
(* entity type (variable entity), calls setters on its builder, commits    *)
(* it with build() and derives a new builder from the committed record.    *)
(*                                                                         *)
(* Rust's Option<T> is modelled as a sequence of length 0 (None) or 1      *)
(* (Some(v)), Result<T, &str> as a record with an ok flag.                 *)
(***************************************************************************)
EXTENDS Integers, Sequences, FiniteSets, TLC

VARIABLES
    entity,     \* the entity type this session stages
    builder,    \* the staging builder (fields of the *Builder struct)
    built,      \* what build() returned for the builder as it stands now
    derived,    \* what the last to_builder() returned
    origin,     \* the record the builder was derived from, while unmodified
    diagnostic, \* the warning event the last setter call emitted, if any
    aborted     \* the calling context has panicked

vars == <<entity, builder, built, derived, origin, diagnostic, aborted>>

-----------------------------------------------------------------------------
\* Option<T> and Result<T, &'static str>

None == <<>>

Some(v) == <<v>>

IsSome(o) == o # <<>>

Unwrap(o) == o[1]

Ok(v) == [ok |-> TRUE, val |-> <<v>>, err |-> ""]

Err(msg) == [ok |-> FALSE, val |-> <<>>, err |-> msg]

\* no call has returned a value yet
NoResult == [ok |-> FALSE, val |-> <<>>, err |-> ""]

IsOk(r) == r.ok

IsErr(r) == ~r.ok /\ r.err # ""

\* the payload of an Ok result
Val(r) == r.val[1]

-----------------------------------------------------------------------------
\* Bounds of the exploration and the inputs the setters are called with

\* at most this many optional Item fields (label entries counted one by one)
\* are set away from their defaults at the same time
MaxWeight == 3

\* the owner and project ids ItemBuilder.user_id / project_id are called with
OwnerIds == {0, 1}

\* the ids the other id setters are called with
IdValues == {1}

\* the orders the setters are called with
OrderValues == {1}

\* the priorities ItemBuilder.priority is called with
PriorityValues == {"P1", "P3"}

LabelIds == {1, 2}

\* the label ids of a session that edits the labels only
ManyLabelIds == {1, 2, 3}

Names == {"Foo", "Inbox", "Not inbox"}

Contents == {"Lorem ipsum"}

Descriptions == {"Dolor sit met"}

DatesAdded == {"1999-01-01"}

DatesCompleted == {"2000-01-01"}

DatesArchived == {"2000-01-01", "2000-02-01"}

Queries == {"today | overdue"}

\* codes DueDateBuilder.lang is called with that are not supported ones
UnsupportedLangs == {"bla", "foo", "bar"}

-----------------------------------------------------------------------------
\* priority.rs, colors.rs

Priority == {"P1", "P2", "P3", "P4"}

Priority_default == "P4"

Colors ==
    {"BerryRed", "Red", "Orange", "Yellow", "OliveGreen", "LimeGreen", "Green",
     "MintGreen", "Teal", "SkyBlue", "LightBlue", "Blue", "Grape", "Violet",
     "Lavender", "Magenta", "Salmon", "Charcoal", "Grey", "Taupe"}

Colors_default == "Grey"

\* the colours the setters are called with
ColorValues == {"BerryRed", "Grey"}

-----------------------------------------------------------------------------
\* dates.rs: DueDate and DueDateBuilder

SupportedLang_supported_lang ==
    {"en", "da", "pl", "zh", "ko", "de", "pt", "ja", "it", "fr", "sv", "ru", "es", "nl"}

SupportedLang_check_lang(value) == value \in SupportedLang_supported_lang

SupportedLang_default == "en"

DueDateBuilder_default ==
    [date |-> None, string |-> None, lang |-> None,
     is_recurring |-> FALSE, no_date |-> FALSE]

\* faulty variant of no_date(): a recurring flag set before it survives
DueDateBuilder_no_date_KeepsRecurring(b, value) ==
    [b EXCEPT !.no_date = TRUE, !.date = None, !.string = None]

\* the argument is ignored: the flag is set whatever value is
DueDateBuilder_no_date(b, value) ==
    [b EXCEPT !.no_date = TRUE, !.date = None, !.string = None,
              !.is_recurring = FALSE]

\* the event no_date() emits: when it has to clear the recurring flag
DueDateBuilder_no_date_event(b, value) ==
    IF b.is_recurring THEN Some("Even with no date can't be recurring") ELSE None

\* faulty variant of is_recurring(): the flag is set in the no-date state too
DueDateBuilder_is_recurring_Unguarded(b, value) == [b EXCEPT !.is_recurring = value]

DueDateBuilder_is_recurring(b, value) ==
    IF b.no_date THEN b ELSE [b EXCEPT !.is_recurring = value]

\* the event is_recurring() emits: when the call is dropped
DueDateBuilder_is_recurring_event(b, value) ==
    IF b.no_date
    THEN Some("'no_date' is set, not marking DueDate as recurring")
    ELSE None

\* faulty variant of lang(): the code is stored without the check
DueDateBuilder_lang_Unchecked(b, value) == [b EXCEPT !.lang = Some(value)]

DueDateBuilder_lang(b, value) ==
    IF SupportedLang_check_lang(value)
    THEN [b EXCEPT !.lang = Some(value)]
    ELSE [b EXCEPT !.lang = Some(SupportedLang_default)]

\* the event lang() emits: when the code is not a supported one (the message
\* carries the code; the model keeps the fixed part of it)
DueDateBuilder_lang_event(b, value) ==
    IF SupportedLang_check_lang(value)
    THEN None
    ELSE Some("Unsupported language, defaulting to 'en'")

\* faulty variant of build(): a builder without date is committed as "No date"
DueDateBuilder_build_NoDateTest(b) ==
    Ok([date |-> IF IsSome(b.date) THEN Unwrap(b.date) ELSE "No date",
        timezone |-> "null",
        string |-> IF IsSome(b.string) THEN Unwrap(b.string) ELSE "No date",
        lang |-> IF IsSome(b.lang) THEN Unwrap(b.lang) ELSE "en",
        is_recurring |-> b.is_recurring,
        no_date |-> b.no_date])

DueDateBuilder_build(b) ==
    IF b.date = None /\ ~b.no_date
    THEN Err("No date given but no_date field is unset")
    ELSE IF b.string = None /\ ~b.no_date
    THEN Err("No date given but no_date field is unset")
    ELSE Ok([date |-> IF IsSome(b.date) THEN Unwrap(b.date) ELSE "No date",
             timezone |-> "null",
             string |-> IF IsSome(b.string) THEN Unwrap(b.string) ELSE "No date",
             lang |-> IF IsSome(b.lang) THEN Unwrap(b.lang) ELSE "en",
             is_recurring |-> b.is_recurring,
             no_date |-> b.no_date])

DueDate_default ==
    Val(DueDateBuilder_build(DueDateBuilder_no_date(DueDateBuilder_default, TRUE)))

\* the due dates ItemBuilder.due is called with
DueValues ==
    {Val(DueDateBuilder_build(
         DueDateBuilder_lang(DueDateBuilder_no_date(DueDateBuilder_default, TRUE), "fr")))}

-----------------------------------------------------------------------------
\* items.rs: Item and ItemBuilder

ItemBuilder_default ==
    [id |-> None, user_id |-> None, project_id |-> None, content |-> None,
     description |-> None, due |-> None, priority |-> None, parent_id |-> None,
     child_order |-> None, section_id |-> None, day_order |-> None,
     collapsed |-> FALSE, labels |-> None, checked |-> FALSE,
     is_deleted |-> FALSE, date_completed |-> None, date_added |-> None]

Item_to_builder(self) ==
    IF self.id = None
    THEN Err("Builder from Item with no ID not allowed.")
    ELSE Ok([id |-> self.id,
             user_id |-> IF self.user_id = 0 THEN None ELSE Some(self.user_id),
             project_id |-> IF self.project_id = 0 THEN None ELSE Some(self.project_id),
             content |-> Some(self.content),
             description |-> self.description,
             due |-> Some(self.due),
             priority |-> Some(self.priority),
             parent_id |-> self.parent_id,
             child_order |-> Some(self.child_order),
             section_id |-> self.section_id,
             day_order |-> Some(self.day_order),
             collapsed |-> self.collapsed,
             labels |-> Some(self.labels),
             checked |-> self.checked,
             is_deleted |-> self.is_deleted,
             date_completed |-> self.date_completed,
             date_added |-> Some(self.date_added)])

ItemBuilder_id(b, value) == [b EXCEPT !.id = Some(value)]

ItemBuilder_user_id(b, value) == [b EXCEPT !.user_id = Some(value)]

ItemBuilder_project_id(b, value) == [b EXCEPT !.project_id = Some(value)]

ItemBuilder_content(b, value) == [b EXCEPT !.content = Some(value)]

ItemBuilder_description(b, value) == [b EXCEPT !.description = Some(value)]

ItemBuilder_due(b, value) == [b EXCEPT !.due = Some(value)]

ItemBuilder_priority(b, value) == [b EXCEPT !.priority = Some(value)]

ItemBuilder_parent_id(b, value) == [b EXCEPT !.parent_id = Some(value)]

ItemBuilder_child_order(b, value) == [b EXCEPT !.child_order = Some(value)]

ItemBuilder_section_id(b, value) == [b EXCEPT !.section_id = Some(value)]

ItemBuilder_day_order(b, value) == [b EXCEPT !.day_order = Some(value)]

ItemBuilder_collapsed(b, value) == [b EXCEPT !.collapsed = value]

\* faulty variant of label_add(): the label is put in front of the list
ItemBuilder_label_add_InFront(b, value) ==
    LET labels == IF IsSome(b.labels) THEN Unwrap(b.labels) ELSE <<>>
    IN  [b EXCEPT !.labels = Some(<<value>> \o labels)]

ItemBuilder_label_add(b, value) ==
    LET labels == IF IsSome(b.labels) THEN Unwrap(b.labels) ELSE <<>>
    IN  [b EXCEPT !.labels = Some(Append(labels, value))]

\* Vec::iter().position: the index of the first element equal to value
Position(labels, value) ==
    CHOOSE i \in 1..Len(labels) :
        labels[i] = value /\ \A j \in 1..(i - 1) : labels[j] # value

\* faulty variant of the removal: the elements after the removed one move up
\* by one place (Vec::remove)
SwapRemove_Shifts(labels, pos) ==
    [i \in 1..(Len(labels) - 1) |-> IF i < pos THEN labels[i] ELSE labels[i + 1]]

\* Vec::swap_remove: the last element takes the place of the removed one
SwapRemove(labels, pos) ==
    [i \in 1..(Len(labels) - 1) |-> IF i = pos THEN labels[Len(labels)] ELSE labels[i]]

\* faulty variant of label_remove(): an emptied list is stored as it is
ItemBuilder_label_remove_KeepsEmpty(b, value) ==
    IF b.labels = None
    THEN b
    ELSE LET old == Unwrap(b.labels)
             labels == IF \E i \in 1..Len(old) : old[i] = value
                       THEN SwapRemove(old, Position(old, value))
                       ELSE old
         IN  [b EXCEPT !.labels = Some(labels)]

ItemBuilder_label_remove(b, value) ==
    IF b.labels = None
    THEN b
    ELSE LET old == Unwrap(b.labels)
             labels == IF \E i \in 1..Len(old) : old[i] = value
                       THEN SwapRemove(old, Position(old, value))
                       ELSE old
         IN  IF labels = <<>>
             THEN [b EXCEPT !.labels = None]
             ELSE [b EXCEPT !.labels = Some(labels)]

\* faulty variant of checked(): checked(false) takes the completion date away
ItemBuilder_checked_ClearsDate(b, value) ==
    [b EXCEPT !.checked = value,
              !.date_completed = IF ~value THEN None ELSE b.date_completed]

\* faulty variant of checked(): the flag can be cleared but not set
ItemBuilder_checked_OnlyClears(b, value) == [b EXCEPT !.checked = FALSE]

ItemBuilder_checked(b, value) == [b EXCEPT !.checked = value]

ItemBuilder_is_deleted(b, value) == [b EXCEPT !.is_deleted = value]

ItemBuilder_date_completed(b, value) == [b EXCEPT !.date_completed = Some(value)]

ItemBuilder_date_added(b, value) == [b EXCEPT !.date_added = Some(value)]

\* faulty variant of the Item expression: an unset priority is committed as P1
ItemBuilder_item_TopPriority(b) ==
    [id |-> b.id,
     user_id |-> Unwrap(b.user_id),
     project_id |-> Unwrap(b.project_id),
     content |-> Unwrap(b.content),
     description |-> b.description,
     due |-> IF IsSome(b.due) THEN Unwrap(b.due) ELSE DueDate_default,
     priority |-> IF IsSome(b.priority) THEN Unwrap(b.priority) ELSE "P1",
     parent_id |-> b.parent_id,
     child_order |-> IF IsSome(b.child_order) THEN Unwrap(b.child_order) ELSE 0,
     section_id |-> b.section_id,
     day_order |-> IF IsSome(b.day_order) THEN Unwrap(b.day_order) ELSE 0,
     collapsed |-> b.collapsed,
     labels |-> IF IsSome(b.labels) THEN Unwrap(b.labels) ELSE <<>>,
     checked |-> b.checked,
     is_deleted |-> b.is_deleted,
     date_completed |-> b.date_completed,
     date_added |-> Unwrap(b.date_added)]

\* the Item build() returns once no check has failed
ItemBuilder_item(b) ==
    [id |-> b.id,
     user_id |-> Unwrap(b.user_id),
     project_id |-> Unwrap(b.project_id),
     content |-> Unwrap(b.content),
     description |-> b.description,
     due |-> IF IsSome(b.due) THEN Unwrap(b.due) ELSE DueDate_default,
     priority |-> IF IsSome(b.priority) THEN Unwrap(b.priority) ELSE Priority_default,
     parent_id |-> b.parent_id,
     child_order |-> IF IsSome(b.child_order) THEN Unwrap(b.child_order) ELSE 0,
     section_id |-> b.section_id,
     day_order |-> IF IsSome(b.day_order) THEN Unwrap(b.day_order) ELSE 0,
     collapsed |-> b.collapsed,
     labels |-> IF IsSome(b.labels) THEN Unwrap(b.labels) ELSE <<>>,
     checked |-> b.checked,
     is_deleted |-> b.is_deleted,
     date_completed |-> b.date_completed,
     date_added |-> Unwrap(b.date_added)]

\* faulty variant of build(): a completion date is accepted on an unchecked task
ItemBuilder_build_NoUncheckedTest(b) ==
    IF b.user_id = None THEN Err("Task has no user ID.")
    ELSE IF b.project_id = None THEN Err("Task has no project ID.")
    ELSE IF b.content = None THEN Err("Task has no content.")
    ELSE IF b.date_completed = None /\ b.checked
    THEN Err("Completed task must have a completion date.")
    ELSE IF b.date_added = None THEN Err("Task has no creation date.")
    ELSE Ok(ItemBuilder_item(b))

\* faulty variant of build(): the project id is looked at before the owner id
ItemBuilder_build_ProjectFirst(b) ==
    IF b.project_id = None THEN Err("Task has no project ID.")
    ELSE IF b.user_id = None THEN Err("Task has no user ID.")
    ELSE IF b.content = None THEN Err("Task has no content.")
    ELSE IF IsSome(b.date_completed) /\ ~b.checked
    THEN Err("Uncompleted task can't have a completion date")
    ELSE IF b.date_completed = None /\ b.checked
    THEN Err("Completed task must have a completion date.")
    ELSE IF b.date_added = None THEN Err("Task has no creation date.")
    ELSE Ok(ItemBuilder_item(b))

\* the fields are evaluated in the order of the struct expression, and the
\* first failing one returns: date_completed comes before date_added
ItemBuilder_build(b) ==
    IF b.user_id = None THEN Err("Task has no user ID.")
    ELSE IF b.project_id = None THEN Err("Task has no project ID.")
    ELSE IF b.content = None THEN Err("Task has no content.")
    ELSE IF IsSome(b.date_completed) /\ ~b.checked
    THEN Err("Uncompleted task can't have a completion date")
    ELSE IF b.date_completed = None /\ b.checked
    THEN Err("Completed task must have a completion date.")
    ELSE IF b.date_added = None THEN Err("Task has no creation date.")
    ELSE Ok(ItemBuilder_item(b))

\* how many optional Item fields the builder would commit with a value other
\* than the default one, label entries counted one by one
ItemWeight(b) ==
    (IF IsSome(b.description) THEN 1 ELSE 0)
    + (IF IsSome(b.due) /\ b.due # Some(DueDate_default) THEN 1 ELSE 0)
    + (IF IsSome(b.priority) /\ b.priority # Some(Priority_default) THEN 1 ELSE 0)
    + (IF IsSome(b.parent_id) THEN 1 ELSE 0)
    + (IF IsSome(b.child_order) /\ b.child_order # Some(0) THEN 1 ELSE 0)
    + (IF IsSome(b.section_id) THEN 1 ELSE 0)
    + (IF IsSome(b.day_order) /\ b.day_order # Some(0) THEN 1 ELSE 0)
    + (IF b.collapsed THEN 1 ELSE 0)
    + (IF b.is_deleted THEN 1 ELSE 0)
    + (IF IsSome(b.labels) THEN Len(Unwrap(b.labels)) ELSE 0)

-----------------------------------------------------------------------------
\* projects.rs: Project and ProjectBuilder

ProjectBuilder_default ==
    [id |-> None, name |-> None, color |-> None, parent_id |-> None,
     child_order |-> 0, collapsed |-> FALSE, shared |-> FALSE, sync_id |-> None,
     is_deleted |-> FALSE, is_archived |-> FALSE, is_favorite |-> FALSE,
     inbox_project |-> FALSE]

\* faulty variant of to_builder(): the missing id is not refused
Project_to_builder_NoIdTest(self) ==
    Ok([id |-> self.id,
        name |-> Some(self.name),
        color |-> Some(self.color),
        parent_id |-> self.parent_id,
        child_order |-> self.child_order,
        collapsed |-> self.collapsed,
        shared |-> self.shared,
        sync_id |-> self.sync_id,
        is_deleted |-> self.is_deleted,
        is_archived |-> self.is_archived,
        is_favorite |-> self.is_favorite,
        inbox_project |-> self.inbox_project])

Project_to_builder(self) ==
    IF self.id = None
    THEN Err("Builder from project with no ID not allowed.")
    ELSE Ok([id |-> self.id,
             name |-> Some(self.name),
             color |-> Some(self.color),
             parent_id |-> self.parent_id,
             child_order |-> self.child_order,
             collapsed |-> self.collapsed,
             shared |-> self.shared,
             sync_id |-> self.sync_id,
             is_deleted |-> self.is_deleted,
             is_archived |-> self.is_archived,
             is_favorite |-> self.is_favorite,
             inbox_project |-> self.inbox_project])

ProjectBuilder_id(b, value) == [b EXCEPT !.id = Some(value)]

\* faulty variant of name(): an inbox project keeps the name "Inbox"
ProjectBuilder_name_KeepsInbox(b, value) ==
    [b EXCEPT !.name = IF b.inbox_project THEN Some("Inbox") ELSE Some(value)]

ProjectBuilder_name(b, value) == [b EXCEPT !.name = Some(value)]

ProjectBuilder_color(b, value) == [b EXCEPT !.color = Some(value)]

ProjectBuilder_parent_id(b, value) == [b EXCEPT !.parent_id = Some(value)]

ProjectBuilder_child_order(b, value) == [b EXCEPT !.child_order = value]

ProjectBuilder_collapsed(b, value) == [b EXCEPT !.collapsed = value]

ProjectBuilder_is_deleted(b, value) == [b EXCEPT !.is_deleted = value]

ProjectBuilder_is_archived(b, value) == [b EXCEPT !.is_archived = value]

ProjectBuilder_is_favorite(b, value) == [b EXCEPT !.is_favorite = value]

\* faulty variant of inbox_project(): a name already chosen is kept
ProjectBuilder_inbox_project_KeepsName(b, value) ==
    LET name == IF IsSome(b.name) THEN b.name ELSE Some("Inbox")
    IN  [b EXCEPT !.name = name, !.inbox_project = value]

\* the name is looked at, and replaced, before the flag is stored and
\* whatever the flag is
ProjectBuilder_inbox_project(b, value) ==
    LET name == IF IsSome(b.name) /\ Unwrap(b.name) = "Inbox"
                THEN b.name
                ELSE Some("Inbox")
    IN  [b EXCEPT !.name = name, !.inbox_project = value]

\* the event inbox_project() emits: only when a name that differs is replaced
\* (the backquotes of the message are written as apostrophes here)
ProjectBuilder_inbox_project_event(b, value) ==
    IF IsSome(b.name) /\ Unwrap(b.name) # "Inbox"
    THEN Some("Project marked as inbox project, changing name to 'Inbox'")
    ELSE None

\* the Project build() returns once no check has failed
ProjectBuilder_project(b) ==
    [id |-> b.id,
     name |-> Unwrap(b.name),
     color |-> IF IsSome(b.color) THEN Unwrap(b.color) ELSE Colors_default,
     parent_id |-> b.parent_id,
     child_order |-> b.child_order,
     collapsed |-> b.collapsed,
     shared |-> b.shared,
     sync_id |-> b.sync_id,
     is_deleted |-> b.is_deleted,
     is_archived |-> b.is_archived,
     is_favorite |-> b.is_favorite,
     inbox_project |-> b.inbox_project]

\* faulty variant of build(): the name of an inbox project is not looked at
ProjectBuilder_build_NoInboxTest(b) ==
    IF b.name = None THEN Err("Project has no name.")
    ELSE Ok(ProjectBuilder_project(b))

ProjectBuilder_build(b) ==
    IF IsSome(b.name) /\ b.inbox_project /\ Unwrap(b.name) # "Inbox"
    THEN Err("Project is not named 'Inbox' but is marked as inbox project")
    ELSE IF b.name = None THEN Err("Project has no name.")
    ELSE Ok(ProjectBuilder_project(b))

-----------------------------------------------------------------------------
\* sections.rs: Section and SectionBuilder

SectionBuilder_default ==
    [id |-> None, name |-> None, project_id |-> None, section_order |-> 0,
     collapsed |-> FALSE, is_deleted |-> FALSE, is_archived |-> FALSE,
     date_archived |-> None, date_added |-> None]

\* faulty variant of to_builder(): the archive date is not copied
Section_to_builder_NoArchiveDate(self) ==
    IF self.id = None
    THEN Err("Builder from section with no ID not allowed.")
    ELSE Ok([id |-> self.id,
             name |-> Some(self.name),
             project_id |-> Some(self.project_id),
             section_order |-> self.section_order,
             collapsed |-> self.collapsed,
             is_deleted |-> self.is_deleted,
             is_archived |-> self.is_archived,
             date_archived |-> None,
             date_added |-> Some(self.date_added)])

Section_to_builder(self) ==
    IF self.id = None
    THEN Err("Builder from section with no ID not allowed.")
    ELSE Ok([id |-> self.id,
             name |-> Some(self.name),
             project_id |-> Some(self.project_id),
             section_order |-> self.section_order,
             collapsed |-> self.collapsed,
             is_deleted |-> self.is_deleted,
             is_archived |-> self.is_archived,
             date_archived |-> self.date_archived,
             date_added |-> Some(self.date_added)])

SectionBuilder_id(b, value) == [b EXCEPT !.id = Some(value)]

SectionBuilder_name(b, value) == [b EXCEPT !.name = Some(value)]

SectionBuilder_project_id(b, value) == [b EXCEPT !.project_id = Some(value)]

SectionBuilder_section_order(b, value) == [b EXCEPT !.section_order = value]

SectionBuilder_collapsed(b, value) == [b EXCEPT !.collapsed = value]

SectionBuilder_is_deleted(b, value) == [b EXCEPT !.is_deleted = value]

\* faulty variant of is_archived(): the archive date survives is_archived(false)
SectionBuilder_is_archived_KeepsDate(b, value) == [b EXCEPT !.is_archived = value]

SectionBuilder_is_archived(b, value) ==
    [b EXCEPT !.is_archived = value,
              !.date_archived = IF ~value THEN None ELSE b.date_archived]

\* faulty variant of date_archived(): the archived flag is left as it is
SectionBuilder_date_archived_KeepsFlag(b, value) ==
    [b EXCEPT !.date_archived = Some(value)]

SectionBuilder_date_archived(b, value) ==
    [b EXCEPT !.is_archived = IF ~b.is_archived THEN TRUE ELSE b.is_archived,
              !.date_archived = Some(value)]

\* the event is_archived() emits: whenever no archive date is held, whatever
\* value is
SectionBuilder_is_archived_event(b, value) ==
    IF b.date_archived = None
    THEN Some("Section marked as archived but there is no date")
    ELSE None

\* the event date_archived() emits: when it has to set the archived flag
SectionBuilder_date_archived_event(b, value) ==
    IF ~b.is_archived
    THEN Some("Section is not archived with archive date, marking as archived")
    ELSE None

SectionBuilder_date_added(b, value) == [b EXCEPT !.date_added = Some(value)]

\* the Section build() returns once no check has failed
SectionBuilder_section(b) ==
    [id |-> b.id,
     name |-> Unwrap(b.name),
     project_id |-> Unwrap(b.project_id),
     section_order |-> b.section_order,
     collapsed |-> b.collapsed,
     is_deleted |-> b.is_deleted,
     is_archived |-> b.is_archived,
     date_archived |-> b.date_archived,
     date_added |-> Unwrap(b.date_added)]

\* faulty variant of build(): an archived section needs no archive date
SectionBuilder_build_NoArchiveTest(b) ==
    IF b.name = None THEN Err("Section does not have a name.")
    ELSE IF b.project_id = None THEN Err("Section does not have a project ID.")
    ELSE IF IsSome(b.date_archived) /\ ~b.is_archived
    THEN Err("Section has archive date but not marked as archived.")
    ELSE IF b.date_added = None THEN Err("Section does not have an added date.")
    ELSE Ok(SectionBuilder_section(b))

\* faulty variant of build(): the project id is looked at before the name
SectionBuilder_build_ProjectFirst(b) ==
    IF b.project_id = None THEN Err("Section does not have a project ID.")
    ELSE IF b.name = None THEN Err("Section does not have a name.")
    ELSE IF b.is_archived /\ b.date_archived = None
    THEN Err("Section marked as archived with no date.")
    ELSE IF IsSome(b.date_archived) /\ ~b.is_archived
    THEN Err("Section has archive date but not marked as archived.")
    ELSE IF b.date_added = None THEN Err("Section does not have an added date.")
    ELSE Ok(SectionBuilder_section(b))

\* the fields are evaluated in the order of the struct expression, and the
\* first failing one returns: is_archived and date_archived come before
\* date_added
SectionBuilder_build(b) ==
    IF b.name = None THEN Err("Section does not have a name.")
    ELSE IF b.project_id = None THEN Err("Section does not have a project ID.")
    ELSE IF b.is_archived /\ b.date_archived = None
    THEN Err("Section marked as archived with no date.")
    ELSE IF IsSome(b.date_archived) /\ ~b.is_archived
    THEN Err("Section has archive date but not marked as archived.")
    ELSE IF b.date_added = None THEN Err("Section does not have an added date.")
    ELSE Ok(SectionBuilder_section(b))

-----------------------------------------------------------------------------
\* labels.rs: Label and LabelBuilder

LabelBuilder_default ==
    [id |-> None, name |-> None, color |-> None, item_order |-> 0,
     is_deleted |-> FALSE, is_favorite |-> FALSE]

Label_to_builder(self) ==
    IF self.id = None
    THEN Err("Builder from label with no ID not allowed")
    ELSE Ok([id |-> self.id,
             name |-> Some(self.name),
             color |-> Some(self.color),
             item_order |-> self.item_order,
             is_deleted |-> self.is_deleted,
             is_favorite |-> self.is_favorite])

LabelBuilder_id(b, value) == [b EXCEPT !.id = Some(value)]

LabelBuilder_name(b, value) == [b EXCEPT !.name = Some(value)]

LabelBuilder_color(b, value) == [b EXCEPT !.color = Some(value)]

LabelBuilder_item_order(b, value) == [b EXCEPT !.item_order = value]

LabelBuilder_is_deleted(b, value) == [b EXCEPT !.is_deleted = value]

LabelBuilder_is_favorite(b, value) == [b EXCEPT !.is_favorite = value]

LabelBuilder_build(b) ==
    IF b.name = None THEN Err("Label must have a name.")
    ELSE Ok([id |-> b.id,
             name |-> Unwrap(b.name),
             color |-> IF IsSome(b.color) THEN Unwrap(b.color) ELSE Colors_default,
             item_order |-> b.item_order,
             is_deleted |-> b.is_deleted,
             is_favorite |-> b.is_favorite])

-----------------------------------------------------------------------------
\* filters.rs: Filter and FilterBuilder (a Filter has no to_builder())

\* color is a plain field of the builder: it starts as Colors::default()
FilterBuilder_default ==
    [id |-> None, name |-> None, query |-> None, color |-> Colors_default,
     item_order |-> 0, is_deleted |-> FALSE, is_favorite |-> FALSE]

FilterBuilder_id(b, value) == [b EXCEPT !.id = Some(value)]

FilterBuilder_name(b, value) == [b EXCEPT !.name = Some(value)]

FilterBuilder_query(b, value) == [b EXCEPT !.query = Some(value)]

FilterBuilder_color(b, value) == [b EXCEPT !.color = value]

FilterBuilder_item_order(b, value) == [b EXCEPT !.item_order = value]

FilterBuilder_is_deleted(b, value) == [b EXCEPT !.is_deleted = value]

FilterBuilder_is_favorite(b, value) == [b EXCEPT !.is_favorite = value]

\* faulty variant of build(): the query is looked at before the name
FilterBuilder_build_QueryFirst(b) ==
    IF b.query = None THEN Err("No query set for filter")
    ELSE IF b.name = None THEN Err("No name set for filter")
    ELSE Ok([id |-> b.id,
             name |-> Unwrap(b.name),
             query |-> Unwrap(b.query),
             color |-> b.color,
             item_order |-> b.item_order,
             is_deleted |-> b.is_deleted,
             is_favorite |-> b.is_favorite])

FilterBuilder_build(b) ==
    IF b.name = None THEN Err("No name set for filter")
    ELSE IF b.query = None THEN Err("No query set for filter")
    ELSE Ok([id |-> b.id,
             name |-> Unwrap(b.name),
             query |-> Unwrap(b.query),
             color |-> b.color,
             item_order |-> b.item_order,
             is_deleted |-> b.is_deleted,
             is_favorite |-> b.is_favorite])

-----------------------------------------------------------------------------
\* The calling session

Entities == {"Item", "Project", "Section", "Label", "DueDate", "Filter"}

\* Item::builder(), Project::builder(), Section::builder(), Label::builder(),
\* DueDate::builder()
Builder_default(e) ==
    CASE e = "Item" -> ItemBuilder_default
      [] e = "Project" -> ProjectBuilder_default
      [] e = "Section" -> SectionBuilder_default
      [] e = "Label" -> LabelBuilder_default
      [] e = "DueDate" -> DueDateBuilder_default
      [] e = "Filter" -> FilterBuilder_default

\* build() of the builder type of entity e
Build(e, b) ==
    CASE e = "Item" -> ItemBuilder_build(b)
      [] e = "Project" -> ProjectBuilder_build(b)
      [] e = "Section" -> SectionBuilder_build(b)
      [] e = "Label" -> LabelBuilder_build(b)
      [] e = "DueDate" -> DueDateBuilder_build(b)
      [] e = "Filter" -> FilterBuilder_build(b)

\* to_builder() of the record type of entity e
ToBuilder(e, self) ==
    CASE e = "Item" -> Item_to_builder(self)
      [] e = "Project" -> Project_to_builder(self)
      [] e = "Section" -> Section_to_builder(self)
      [] e = "Label" -> Label_to_builder(self)

Init ==
    /\ entity \in Entities
    /\ builder = Builder_default(entity)
    /\ built = NoResult
    /\ derived = NoResult
    /\ origin = None
    /\ diagnostic = None
    /\ aborted = FALSE

\* a setter emitted the warning event w (None: no event) and returned the
\* builder nb: results of earlier calls are stale
SetterWarns(nb, w) ==
    /\ ~aborted
    /\ builder' = nb
    /\ built' = NoResult
    /\ derived' = NoResult
    /\ origin' = None
    /\ diagnostic' = w
    /\ UNCHANGED <<entity, aborted>>

\* a setter that emits no event returned the builder nb
SetterReturns(nb) == SetterWarns(nb, None)

\* faulty variant of build(): a refused builder is left reset
BuildReturns_ResetsOnError(r) ==
    /\ ~aborted
    /\ built' = r
    /\ builder' = IF IsOk(r) THEN builder ELSE Builder_default(entity)
    /\ UNCHANGED <<entity, derived, origin, diagnostic, aborted>>

\* build() returned r; the builder is borrowed immutably
BuildReturns(r) ==
    /\ ~aborted
    /\ built' = r
    /\ UNCHANGED <<entity, builder, derived, origin, diagnostic, aborted>>

\* to_builder() of the record just built returned r; on Ok the session goes
\* on with the derived builder, on Err it has no new builder
ToBuilderReturns(r) ==
    /\ ~aborted
    /\ derived' = r
    /\ builder' = IF IsOk(r) THEN Val(r) ELSE builder
    /\ origin' = IF IsOk(r) THEN Some(Val(built)) ELSE None
    /\ built' = NoResult
    /\ diagnostic' = None
    /\ UNCHANGED <<entity, aborted>>

ItemSetter(nb) ==
    /\ entity = "Item"
    /\ ItemWeight(nb) <= MaxWeight
    /\ SetterReturns(nb)

Call_Item_builder == entity = "Item" /\ SetterReturns(ItemBuilder_default)

Call_ItemBuilder_id(value) == ItemSetter(ItemBuilder_id(builder, value))

Call_ItemBuilder_user_id(value) == ItemSetter(ItemBuilder_user_id(builder, value))

Call_ItemBuilder_project_id(value) == ItemSetter(ItemBuilder_project_id(builder, value))

Call_ItemBuilder_content(value) == ItemSetter(ItemBuilder_content(builder, value))

Call_ItemBuilder_description(value) == ItemSetter(ItemBuilder_description(builder, value))

Call_ItemBuilder_due(value) == ItemSetter(ItemBuilder_due(builder, value))

Call_ItemBuilder_priority(value) == ItemSetter(ItemBuilder_priority(builder, value))

Call_ItemBuilder_parent_id(value) == ItemSetter(ItemBuilder_parent_id(builder, value))

Call_ItemBuilder_child_order(value) == ItemSetter(ItemBuilder_child_order(builder, value))

Call_ItemBuilder_section_id(value) == ItemSetter(ItemBuilder_section_id(builder, value))

Call_ItemBuilder_day_order(value) == ItemSetter(ItemBuilder_day_order(builder, value))

Call_ItemBuilder_collapsed(value) == ItemSetter(ItemBuilder_collapsed(builder, value))

Call_ItemBuilder_label_add(value) == ItemSetter(ItemBuilder_label_add(builder, value))

Call_ItemBuilder_label_remove(value) == ItemSetter(ItemBuilder_label_remove(builder, value))

Call_ItemBuilder_checked(value) == ItemSetter(ItemBuilder_checked(builder, value))

Call_ItemBuilder_is_deleted(value) == ItemSetter(ItemBuilder_is_deleted(builder, value))

Call_ItemBuilder_date_completed(value) ==
    ItemSetter(ItemBuilder_date_completed(builder, value))

Call_ItemBuilder_date_added(value) == ItemSetter(ItemBuilder_date_added(builder, value))

Call_ItemBuilder_build == entity = "Item" /\ BuildReturns(ItemBuilder_build(builder))

Call_Item_to_builder ==
    /\ entity = "Item"
    /\ IsOk(built)
    /\ ToBuilderReturns(Item_to_builder(Val(built)))

NextItem ==
    \/ Call_Item_builder
    \/ \E value \in IdValues : Call_ItemBuilder_id(value)
    \/ \E value \in OwnerIds : Call_ItemBuilder_user_id(value)
    \/ \E value \in OwnerIds : Call_ItemBuilder_project_id(value)
    \/ \E value \in Contents : Call_ItemBuilder_content(value)
    \/ \E value \in Descriptions : Call_ItemBuilder_description(value)
    \/ \E value \in DueValues : Call_ItemBuilder_due(value)
    \/ \E value \in PriorityValues : Call_ItemBuilder_priority(value)
    \/ \E value \in IdValues : Call_ItemBuilder_parent_id(value)
    \/ \E value \in OrderValues : Call_ItemBuilder_child_order(value)
    \/ \E value \in IdValues : Call_ItemBuilder_section_id(value)
    \/ \E value \in OrderValues : Call_ItemBuilder_day_order(value)
    \/ \E value \in BOOLEAN : Call_ItemBuilder_collapsed(value)
    \/ \E value \in LabelIds : Call_ItemBuilder_label_add(value)
    \/ \E value \in LabelIds : Call_ItemBuilder_label_remove(value)
    \/ \E value \in BOOLEAN : Call_ItemBuilder_checked(value)
    \/ \E value \in BOOLEAN : Call_ItemBuilder_is_deleted(value)
    \/ \E value \in DatesCompleted : Call_ItemBuilder_date_completed(value)
    \/ \E value \in DatesAdded : Call_ItemBuilder_date_added(value)
    \/ Call_ItemBuilder_build
    \/ Call_Item_to_builder

InitItem == Init /\ entity = "Item"

SpecItem == InitItem /\ [][NextItem]_vars

\* A session staging an Item that sets the required fields and the id, and
\* edits the labels: the calls are those of NextItem, the labels are taken
\* from a larger set
NextItemLabels ==
    \/ Call_Item_builder
    \/ \E value \in IdValues : Call_ItemBuilder_id(value)
    \/ \E value \in IdValues : Call_ItemBuilder_user_id(value)
    \/ \E value \in IdValues : Call_ItemBuilder_project_id(value)
    \/ \E value \in Contents : Call_ItemBuilder_content(value)
    \/ \E value \in ManyLabelIds : Call_ItemBuilder_label_add(value)
    \/ \E value \in ManyLabelIds : Call_ItemBuilder_label_remove(value)
    \/ \E value \in DatesAdded : Call_ItemBuilder_date_added(value)
    \/ Call_ItemBuilder_build
    \/ Call_Item_to_builder

SpecItemLabels == InitItem /\ [][NextItemLabels]_vars

\* a call panicked: the calling context is gone, and the builder with it
Panics ==
    /\ ~aborted
    /\ aborted' = TRUE
    /\ UNCHANGED <<entity, builder, built, derived, origin, diagnostic>>

-----------------------------------------------------------------------------
\* A session staging a Project

ProjectSetter(nb) == entity = "Project" /\ SetterReturns(nb)

Call_Project_builder == ProjectSetter(ProjectBuilder_default)

Call_ProjectBuilder_id(value) == ProjectSetter(ProjectBuilder_id(builder, value))

Call_ProjectBuilder_name(value) == ProjectSetter(ProjectBuilder_name(builder, value))

Call_ProjectBuilder_color(value) == ProjectSetter(ProjectBuilder_color(builder, value))

Call_ProjectBuilder_parent_id(value) ==
    ProjectSetter(ProjectBuilder_parent_id(builder, value))

Call_ProjectBuilder_child_order(value) ==
    ProjectSetter(ProjectBuilder_child_order(builder, value))

Call_ProjectBuilder_collapsed(value) ==
    ProjectSetter(ProjectBuilder_collapsed(builder, value))

\* faulty variant of shared(): the flag is stored and the builder returned
Call_ProjectBuilder_shared_Stores(value) ==
    ProjectSetter([builder EXCEPT !.shared = value])

Call_ProjectBuilder_shared(value) == entity = "Project" /\ Panics

Call_ProjectBuilder_sync_id(value) == entity = "Project" /\ Panics

Call_ProjectBuilder_is_deleted(value) ==
    ProjectSetter(ProjectBuilder_is_deleted(builder, value))

Call_ProjectBuilder_is_archived(value) ==
    ProjectSetter(ProjectBuilder_is_archived(builder, value))

Call_ProjectBuilder_is_favorite(value) ==
    ProjectSetter(ProjectBuilder_is_favorite(builder, value))

Call_ProjectBuilder_inbox_project(value) ==
    /\ entity = "Project"
    /\ SetterWarns(ProjectBuilder_inbox_project(builder, value),
                   ProjectBuilder_inbox_project_event(builder, value))

Call_ProjectBuilder_build ==
    entity = "Project" /\ BuildReturns(ProjectBuilder_build(builder))

Call_Project_to_builder ==
    /\ entity = "Project"
    /\ IsOk(built)
    /\ ToBuilderReturns(Project_to_builder(Val(built)))

NextProject ==
    \/ Call_Project_builder
    \/ \E value \in IdValues : Call_ProjectBuilder_id(value)
    \/ \E value \in Names : Call_ProjectBuilder_name(value)
    \/ \E value \in ColorValues : Call_ProjectBuilder_color(value)
    \/ \E value \in IdValues : Call_ProjectBuilder_parent_id(value)
    \/ \E value \in OrderValues : Call_ProjectBuilder_child_order(value)
    \/ \E value \in BOOLEAN : Call_ProjectBuilder_collapsed(value)
    \/ \E value \in BOOLEAN : Call_ProjectBuilder_shared(value)
    \/ \E value \in IdValues : Call_ProjectBuilder_sync_id(value)
    \/ \E value \in BOOLEAN : Call_ProjectBuilder_is_deleted(value)
    \/ \E value \in BOOLEAN : Call_ProjectBuilder_is_archived(value)
    \/ \E value \in BOOLEAN : Call_ProjectBuilder_is_favorite(value)
    \/ \E value \in BOOLEAN : Call_ProjectBuilder_inbox_project(value)
    \/ Call_ProjectBuilder_build
    \/ Call_Project_to_builder

InitProject == Init /\ entity = "Project"

SpecProject == InitProject /\ [][NextProject]_vars

-----------------------------------------------------------------------------
\* A session staging a Section

SectionSetter(nb) == entity = "Section" /\ SetterReturns(nb)

Call_Section_builder == SectionSetter(SectionBuilder_default)

Call_SectionBuilder_id(value) == SectionSetter(SectionBuilder_id(builder, value))

Call_SectionBuilder_name(value) == SectionSetter(SectionBuilder_name(builder, value))

Call_SectionBuilder_project_id(value) ==
    SectionSetter(SectionBuilder_project_id(builder, value))

Call_SectionBuilder_section_order(value) ==
    SectionSetter(SectionBuilder_section_order(builder, value))

Call_SectionBuilder_collapsed(value) ==
    SectionSetter(SectionBuilder_collapsed(builder, value))

Call_SectionBuilder_is_deleted(value) ==
    SectionSetter(SectionBuilder_is_deleted(builder, value))

Call_SectionBuilder_is_archived(value) ==
    /\ entity = "Section"
    /\ SetterWarns(SectionBuilder_is_archived(builder, value),
                   SectionBuilder_is_archived_event(builder, value))

Call_SectionBuilder_date_archived(value) ==
    /\ entity = "Section"
    /\ SetterWarns(SectionBuilder_date_archived(builder, value),
                   SectionBuilder_date_archived_event(builder, value))

Call_SectionBuilder_date_added(value) ==
    SectionSetter(SectionBuilder_date_added(builder, value))

Call_SectionBuilder_build ==
    entity = "Section" /\ BuildReturns(SectionBuilder_build(builder))

Call_Section_to_builder ==
    /\ entity = "Section"
    /\ IsOk(built)
    /\ ToBuilderReturns(Section_to_builder(Val(built)))

NextSection ==
    \/ Call_Section_builder
    \/ \E value \in IdValues : Call_SectionBuilder_id(value)
    \/ \E value \in Names : Call_SectionBuilder_name(value)
    \/ \E value \in OwnerIds : Call_SectionBuilder_project_id(value)
    \/ \E value \in OrderValues : Call_SectionBuilder_section_order(value)
    \/ \E value \in BOOLEAN : Call_SectionBuilder_collapsed(value)
    \/ \E value \in BOOLEAN : Call_SectionBuilder_is_deleted(value)
    \/ \E value \in BOOLEAN : Call_SectionBuilder_is_archived(value)
    \/ \E value \in DatesArchived : Call_SectionBuilder_date_archived(value)
    \/ \E value \in DatesAdded : Call_SectionBuilder_date_added(value)
    \/ Call_SectionBuilder_build
    \/ Call_Section_to_builder

InitSection == Init /\ entity = "Section"

SpecSection == InitSection /\ [][NextSection]_vars

-----------------------------------------------------------------------------
\* A session staging a Label

LabelSetter(nb) == entity = "Label" /\ SetterReturns(nb)

Call_Label_builder == LabelSetter(LabelBuilder_default)

Call_LabelBuilder_id(value) == LabelSetter(LabelBuilder_id(builder, value))

Call_LabelBuilder_name(value) == LabelSetter(LabelBuilder_name(builder, value))

Call_LabelBuilder_color(value) == LabelSetter(LabelBuilder_color(builder, value))

Call_LabelBuilder_item_order(value) ==
    LabelSetter(LabelBuilder_item_order(builder, value))

Call_LabelBuilder_is_deleted(value) ==
    LabelSetter(LabelBuilder_is_deleted(builder, value))

Call_LabelBuilder_is_favorite(value) ==
    LabelSetter(LabelBuilder_is_favorite(builder, value))

Call_LabelBuilder_build == entity = "Label" /\ BuildReturns(LabelBuilder_build(builder))

Call_Label_to_builder ==
    /\ entity = "Label"
    /\ IsOk(built)
    /\ ToBuilderReturns(Label_to_builder(Val(built)))

NextLabel ==
    \/ Call_Label_builder
    \/ \E value \in IdValues : Call_LabelBuilder_id(value)
    \/ \E value \in Names : Call_LabelBuilder_name(value)
    \/ \E value \in ColorValues : Call_LabelBuilder_color(value)
    \/ \E value \in OrderValues : Call_LabelBuilder_item_order(value)
    \/ \E value \in BOOLEAN : Call_LabelBuilder_is_deleted(value)
    \/ \E value \in BOOLEAN : Call_LabelBuilder_is_favorite(value)
    \/ Call_LabelBuilder_build
    \/ Call_Label_to_builder

InitLabel == Init /\ entity = "Label"

SpecLabel == InitLabel /\ [][NextLabel]_vars

-----------------------------------------------------------------------------
\* A session staging a DueDate (a DueDate has no to_builder())

Call_DueDate_builder == entity = "DueDate" /\ SetterReturns(DueDateBuilder_default)

\* faulty variant of from_string(): the string is stored as date and string
Call_DueDateBuilder_from_string_Stores(date_string) ==
    /\ entity = "DueDate"
    /\ SetterReturns([builder EXCEPT !.date = Some(date_string),
                                     !.string = Some(date_string)])

\* from_string() is not implemented: it panics whatever the string is
Call_DueDateBuilder_from_string(date_string) == entity = "DueDate" /\ Panics

Call_DueDateBuilder_no_date(value) ==
    /\ entity = "DueDate"
    /\ SetterWarns(DueDateBuilder_no_date(builder, value),
                   DueDateBuilder_no_date_event(builder, value))

Call_DueDateBuilder_is_recurring(value) ==
    /\ entity = "DueDate"
    /\ SetterWarns(DueDateBuilder_is_recurring(builder, value),
                   DueDateBuilder_is_recurring_event(builder, value))

Call_DueDateBuilder_lang(value) ==
    /\ entity = "DueDate"
    /\ SetterWarns(DueDateBuilder_lang(builder, value),
                   DueDateBuilder_lang_event(builder, value))

Call_DueDateBuilder_build ==
    entity = "DueDate" /\ BuildReturns(DueDateBuilder_build(builder))

NextDueDate ==
    \/ Call_DueDate_builder
    \/ \E date_string \in DatesAdded : Call_DueDateBuilder_from_string(date_string)
    \/ \E value \in BOOLEAN : Call_DueDateBuilder_no_date(value)
    \/ \E value \in BOOLEAN : Call_DueDateBuilder_is_recurring(value)
    \/ \E value \in SupportedLang_supported_lang \cup UnsupportedLangs :
           Call_DueDateBuilder_lang(value)
    \/ Call_DueDateBuilder_build

InitDueDate == Init /\ entity = "DueDate"

SpecDueDate == InitDueDate /\ [][NextDueDate]_vars

-----------------------------------------------------------------------------
\* A session staging a Filter

FilterSetter(nb) == entity = "Filter" /\ SetterReturns(nb)

Call_Filter_builder == FilterSetter(FilterBuilder_default)

Call_FilterBuilder_id(value) == FilterSetter(FilterBuilder_id(builder, value))

Call_FilterBuilder_name(value) == FilterSetter(FilterBuilder_name(builder, value))

Call_FilterBuilder_query(value) == FilterSetter(FilterBuilder_query(builder, value))

Call_FilterBuilder_color(value) == FilterSetter(FilterBuilder_color(builder, value))

Call_FilterBuilder_item_order(value) ==
    FilterSetter(FilterBuilder_item_order(builder, value))

Call_FilterBuilder_is_deleted(value) ==
    FilterSetter(FilterBuilder_is_deleted(builder, value))

Call_FilterBuilder_is_favorite(value) ==
    FilterSetter(FilterBuilder_is_favorite(builder, value))

Call_FilterBuilder_build ==
    entity = "Filter" /\ BuildReturns(FilterBuilder_build(builder))

NextFilter ==
    \/ Call_Filter_builder
    \/ \E value \in IdValues : Call_FilterBuilder_id(value)
    \/ \E value \in Names : Call_FilterBuilder_name(value)
    \/ \E value \in Queries : Call_FilterBuilder_query(value)
    \/ \E value \in ColorValues : Call_FilterBuilder_color(value)
    \/ \E value \in OrderValues : Call_FilterBuilder_item_order(value)
    \/ \E value \in BOOLEAN : Call_FilterBuilder_is_deleted(value)
    \/ \E value \in BOOLEAN : Call_FilterBuilder_is_favorite(value)
    \/ Call_FilterBuilder_build

InitFilter == Init /\ entity = "Filter"

SpecFilter == InitFilter /\ [][NextFilter]_vars

-----------------------------------------------------------------------------
\* A session staging any one of the entity types

Next ==
    NextItem \/ NextProject \/ NextSection \/ NextLabel \/ NextDueDate \/ NextFilter

Spec == Init /\ [][Next]_vars

-----------------------------------------------------------------------------
\* Properties

\* the record just committed can be derived from: it carries an id
Committed == IsOk(built) /\ IsSome(Val(built).id)

\* build() of the unmodified builder derived from the record just committed
Rebuilt(e) == Build(e, Val(ToBuilder(e, Val(built))))

\* the builder was derived from a record, not touched since, and committed again
Recommitted == IsSome(origin) /\ built # NoResult

\* C1: every Item that build() returns with an id present (owner id and
\* project id 0 included) goes through to_builder(), and build() of the
\* unmodified derived builder returns an Item equal to it.
C1_ItemRoundTrip ==
    entity = "Item" =>
        /\ Committed => IsOk(Item_to_builder(Val(built)))
        /\ Recommitted => built = Ok(Unwrap(origin))

\* C2: every Project, Section and Label that build() returns with an id
\* present goes through to_builder(), and build() of the unmodified derived
\* builder returns a record equal to it, field by field.
C2_RecordRoundTrip ==
    entity \in {"Project", "Section", "Label"} =>
        /\ Committed =>
               IsOk(ToBuilder(entity, Val(built))) /\ Rebuilt(entity) = Ok(Val(built))
        /\ Recommitted => built = Ok(Unwrap(origin))

\* an archived Section, with its archive date, was derived from and committed again
C2_Witness ==
    /\ entity = "Section"
    /\ Recommitted
    /\ IsOk(built)
    /\ Val(built).is_archived
    /\ IsSome(Val(built).date_archived)

\* the message to_builder() refuses a record without id with
NoIdMessage(e) ==
    CASE e = "Item" -> "Builder from Item with no ID not allowed."
      [] e = "Project" -> "Builder from project with no ID not allowed."
      [] e = "Section" -> "Builder from section with no ID not allowed."
      [] e = "Label" -> "Builder from label with no ID not allowed"

\* C3: to_builder() of a committed Item, Project, Section or Label without id
\* returns the error naming the entity type and no builder (the session keeps
\* no derived builder), whatever the other fields hold; with an id present it
\* returns a builder.
C3_ToBuilderNeedsId ==
    entity \in {"Item", "Project", "Section", "Label"} =>
        /\ IsOk(built) =>
               IF Val(built).id = None
               THEN ToBuilder(entity, Val(built)) = Err(NoIdMessage(entity))
               ELSE IsOk(ToBuilder(entity, Val(built)))
        /\ IsErr(derived) => derived = Err(NoIdMessage(entity)) /\ origin = None
        /\ IsOk(derived) => IsSome(origin) /\ IsSome(Unwrap(origin).id)

\* to_builder() was called on a Label without id, its other fields not default
C3_Witness ==
    /\ entity = "Label"
    /\ IsErr(derived)
    /\ builder.id = None
    /\ builder.is_favorite
    /\ IsSome(builder.color)

\* owner id, project id, content and creation date are all set
ItemRequiredSet(b) ==
    IsSome(b.user_id) /\ IsSome(b.project_id) /\ IsSome(b.content) /\ IsSome(b.date_added)

\* C4: with the required fields set, build() fails with "Completed task must
\* have a completion date." for checked without completion date and with
\* "Uncompleted task can't have a completion date" for a completion date
\* without checked; every Item it returns has checked <=> completion date
\* present.
C4_CheckedIffCompleted ==
    entity = "Item" /\ built # NoResult =>
        /\ ItemRequiredSet(builder) /\ builder.checked /\ builder.date_completed = None
               => built = Err("Completed task must have a completion date.")
        /\ ItemRequiredSet(builder) /\ ~builder.checked /\ IsSome(builder.date_completed)
               => built = Err("Uncompleted task can't have a completion date")
        /\ IsOk(built) => (Val(built).checked <=> IsSome(Val(built).date_completed))

\* build() refused a completion date on an unchecked task, required fields set
C4_Witness ==
    /\ entity = "Item"
    /\ ItemRequiredSet(builder)
    /\ ~builder.checked
    /\ IsSome(builder.date_completed)
    /\ built = Err("Uncompleted task can't have a completion date")

\* the message of the first unset required Item field, in the order owner id,
\* project id, content, creation date
ItemFirstUnset(b) ==
    IF b.user_id = None THEN "Task has no user ID."
    ELSE IF b.project_id = None THEN "Task has no project ID."
    ELSE IF b.content = None THEN "Task has no content."
    ELSE "Task has no creation date."

\* C5 as stated: whenever a required Item field is unset, build() fails with
\* the message of the first unset one, whatever checked and the completion
\* date hold.
C5_FirstUnsetAlways ==
    entity = "Item" /\ built # NoResult /\ ~ItemRequiredSet(builder) =>
        built = Err(ItemFirstUnset(builder))

\* the message build() gives when checked and the completion date disagree
ItemCheckedMessage(b) ==
    IF b.checked
    THEN "Completed task must have a completion date."
    ELSE "Uncompleted task can't have a completion date"

\* C5 (amended): whenever a required Item field is unset, build() fails; with
\* owner id, project id or content unset the message is that of the first
\* unset one of the three; with only the creation date unset it is "Task has
\* no creation date." when checked <=> completion date present, and the
\* checked / completion date message otherwise.
C5_FirstUnsetAmended ==
    entity = "Item" /\ built # NoResult /\ ~ItemRequiredSet(builder) =>
        IF builder.user_id = None \/ builder.project_id = None \/ builder.content = None
        THEN built = Err(ItemFirstUnset(builder))
        ELSE IF builder.checked <=> IsSome(builder.date_completed)
        THEN built = Err("Task has no creation date.")
        ELSE built = Err(ItemCheckedMessage(builder))

\* only the creation date is unset and checked has no completion date: build()
\* reports the completion date
C5_Witness ==
    /\ entity = "Item"
    /\ IsSome(builder.user_id) /\ IsSome(builder.project_id) /\ IsSome(builder.content)
    /\ builder.date_added = None
    /\ builder.checked /\ builder.date_completed = None
    /\ built = Err("Completed task must have a completion date.")

\* name, project id and creation date are all set
SectionRequiredSet(b) == IsSome(b.name) /\ IsSome(b.project_id) /\ IsSome(b.date_added)

\* C6: with name, project id and creation date set, build() fails with "Section
\* marked as archived with no date." for is_archived without archive date;
\* every Section it returns has is_archived <=> archive date present.
C6_ArchivedIffDate ==
    entity = "Section" /\ built # NoResult =>
        /\ SectionRequiredSet(builder) /\ builder.is_archived /\ builder.date_archived = None
               => built = Err("Section marked as archived with no date.")
        /\ IsOk(built) => (Val(built).is_archived <=> IsSome(Val(built).date_archived))

\* build() refused an archived Section without archive date, required fields set
C6_Witness ==
    /\ entity = "Section"
    /\ SectionRequiredSet(builder)
    /\ builder.is_archived
    /\ builder.date_archived = None
    /\ built = Err("Section marked as archived with no date.")

\* the builders b and nb agree on every field outside fields
SameExcept(b, nb, fields) ==
    DOMAIN nb = DOMAIN b /\ \A f \in DOMAIN b \ fields : nb[f] = b[f]

\* C7: is_archived(false) leaves the archive date absent and is_archived
\* false; is_archived(true) leaves the archive date as it was and is_archived
\* true; date_archived(d) leaves the archive date d and is_archived true; both
\* setters leave every other field as it was.
C7_ArchiveSetters ==
    [][ /\ \A value \in BOOLEAN :
              Call_SectionBuilder_is_archived(value) =>
                  /\ builder'.is_archived = value
                  /\ builder'.date_archived = IF value THEN builder.date_archived ELSE None
                  /\ SameExcept(builder, builder', {"is_archived", "date_archived"})
        /\ \A value \in DatesArchived :
              Call_SectionBuilder_date_archived(value) =>
                  /\ builder'.is_archived
                  /\ builder'.date_archived = Some(value)
                  /\ SameExcept(builder, builder', {"is_archived", "date_archived"})]_vars

\* a builder whose archive date was replaced, other fields set
C7_Witness ==
    /\ entity = "Section"
    /\ built = NoResult
    /\ builder.is_archived
    /\ builder.date_archived = Some("2000-02-01")
    /\ IsSome(builder.name)
    /\ builder.collapsed

\* the message of the first unset required Section field, in the order name,
\* project id, creation date
SectionFirstUnset(b) ==
    IF b.name = None THEN "Section does not have a name."
    ELSE IF b.project_id = None THEN "Section does not have a project ID."
    ELSE "Section does not have an added date."

\* C8 as stated: whenever a required Section field is unset, build() fails
\* with the message of the first unset one, whatever the archived flag and
\* the archive date hold.
C8_FirstUnsetAlways ==
    entity = "Section" /\ built # NoResult /\ ~SectionRequiredSet(builder) =>
        built = Err(SectionFirstUnset(builder))

\* the message build() gives when is_archived and the archive date disagree
SectionArchiveMessage(b) ==
    IF b.is_archived
    THEN "Section marked as archived with no date."
    ELSE "Section has archive date but not marked as archived."

\* C8 (amended): whenever a required Section field is unset, build() fails;
\* with name or project id unset the message is that of the first unset one
\* of the two; with only the creation date unset it is "Section does not have
\* an added date." when is_archived <=> archive date present, and the archive
\* message otherwise.
C8_FirstUnsetAmended ==
    entity = "Section" /\ built # NoResult /\ ~SectionRequiredSet(builder) =>
        IF builder.name = None \/ builder.project_id = None
        THEN built = Err(SectionFirstUnset(builder))
        ELSE IF builder.is_archived <=> IsSome(builder.date_archived)
        THEN built = Err("Section does not have an added date.")
        ELSE built = Err(SectionArchiveMessage(builder))

\* only the creation date is unset and is_archived has no archive date: build()
\* reports the archive date
C8_Witness ==
    /\ entity = "Section"
    /\ IsSome(builder.name) /\ IsSome(builder.project_id)
    /\ builder.date_added = None
    /\ builder.is_archived /\ builder.date_archived = None
    /\ built = Err("Section marked as archived with no date.")

\* C9: every Project build() returns with inbox_project true is named exactly
\* "Inbox"; a builder marked inbox whose name was then set to another name is
\* refused with "Project is not named 'Inbox' but is marked as inbox project".
C9_InboxIsNamedInbox ==
    entity = "Project" /\ built # NoResult =>
        /\ IsOk(built) /\ Val(built).inbox_project => Val(built).name = "Inbox"
        /\ builder.inbox_project /\ IsSome(builder.name) /\ builder.name # Some("Inbox")
               => built = Err("Project is not named 'Inbox' but is marked as inbox project")

\* build() refused an inbox project named "Not inbox"
C9_Witness ==
    /\ entity = "Project"
    /\ builder.inbox_project
    /\ builder.name = Some("Not inbox")
    /\ built = Err("Project is not named 'Inbox' but is marked as inbox project")

\* C10: from any builder state, inbox_project(true) leaves the name "Inbox"
\* and inbox_project true, so that build() right after it returns a Project
\* named "Inbox"; a build() that follows returns exactly that.
C10_InboxRenames ==
    [][ /\ Call_ProjectBuilder_inbox_project(TRUE) =>
              /\ builder'.name = Some("Inbox")
              /\ builder'.inbox_project
              /\ IsOk(ProjectBuilder_build(builder'))
              /\ Val(ProjectBuilder_build(builder')).name = "Inbox"
              /\ SameExcept(builder, builder', {"name", "inbox_project"})
        /\ (Call_ProjectBuilder_build /\ builder.inbox_project
                /\ builder.name = Some("Inbox")) =>
                    /\ IsOk(built')
                    /\ Val(built').name = "Inbox"
                    /\ Val(built').inbox_project]_vars

\* an inbox project named "Inbox" was committed
C10_Witness ==
    /\ entity = "Project"
    /\ builder.inbox_project
    /\ builder.name = Some("Inbox")
    /\ IsOk(built)
    /\ Val(built).name = "Inbox"

\* the message build() refuses an inbox project of another name with
InboxNameMessage == "Project is not named 'Inbox' but is marked as inbox project"

\* the event inbox_project() emits when it replaces a name
InboxRenameEvent == Some("Project marked as inbox project, changing name to 'Inbox'")

\* C11 as stated: inbox_project(true) called on a builder whose name is
\* "Not inbox" makes build() fail with "Project is not named 'Inbox' but is
\* marked as inbox project".
C11_NameThenInboxFails ==
    [][ Call_ProjectBuilder_inbox_project(TRUE) /\ builder.name = Some("Not inbox")
            => ProjectBuilder_build(builder') = Err(InboxNameMessage) ]_vars

\* C11 (amended): inbox_project(true) called after name("Not inbox") emits the
\* rename event and replaces the name, so that build() returns an inbox
\* Project named "Inbox"; it is name("Not inbox") called after
\* inbox_project(true) that makes build() fail with "Project is not named
\* 'Inbox' but is marked as inbox project".
C11_OrderGoverns ==
    [][ /\ (Call_ProjectBuilder_inbox_project(TRUE) /\ builder.name = Some("Not inbox")) =>
               /\ diagnostic' = InboxRenameEvent
               /\ IsOk(ProjectBuilder_build(builder'))
               /\ Val(ProjectBuilder_build(builder')).name = "Inbox"
               /\ Val(ProjectBuilder_build(builder')).inbox_project
        /\ (Call_ProjectBuilder_name("Not inbox") /\ builder.inbox_project) =>
               ProjectBuilder_build(builder') = Err(InboxNameMessage)
        /\ (Call_ProjectBuilder_build /\ builder.inbox_project) =>
               IF builder.name = Some("Inbox")
               THEN IsOk(built') /\ Val(built').name = "Inbox"
               ELSE built' = Err(InboxNameMessage) ]_vars

\* inbox_project(true) replaced a name that was set before it, and build()
\* returned the inbox Project
C11_Witness ==
    /\ entity = "Project"
    /\ diagnostic = InboxRenameEvent
    /\ builder.inbox_project
    /\ IsOk(built)
    /\ Val(built).name = "Inbox"
    /\ Val(built).inbox_project

\* C12: every Project build() returns has shared false and sync_id absent, and
\* so has every ProjectBuilder, fresh or derived; shared(_) and sync_id(_)
\* abort the calling context for every argument, leave no builder to go on
\* with, and no call returns once the context has aborted.
C12_SharedUnsupported ==
    /\ [](entity = "Project" =>
              /\ ~builder.shared /\ builder.sync_id = None
              /\ IsOk(built) => ~Val(built).shared /\ Val(built).sync_id = None
              /\ IsOk(derived) => ~Val(derived).shared /\ Val(derived).sync_id = None)
    /\ [][ /\ \A value \in BOOLEAN :
                  entity = "Project" /\ ~aborted =>
                      /\ ENABLED Call_ProjectBuilder_shared(value)
                      /\ Call_ProjectBuilder_shared(value) =>
                             aborted' /\ builder' = builder
           /\ \A value \in IdValues :
                  entity = "Project" /\ ~aborted =>
                      /\ ENABLED Call_ProjectBuilder_sync_id(value)
                      /\ Call_ProjectBuilder_sync_id(value) =>
                             aborted' /\ builder' = builder
           /\ ~aborted ]_vars

\* shared(_) or sync_id(_) was called after a Project was committed: the
\* context has aborted
C12_Witness ==
    /\ entity = "Project"
    /\ aborted
    /\ IsOk(built)
    /\ ~Val(built).shared
    /\ Val(built).sync_id = None

\* the DueDate of a builder in the no-date state, its locale being lang
NoDateDueDate(lang) ==
    [date |-> "No date", timezone |-> "null", string |-> "No date",
     lang |-> lang, is_recurring |-> FALSE, no_date |-> TRUE]

\* C13: no_date(true) puts the DueDateBuilder into the no-date state, no
\* is_recurring(..) call made before or after it changes that, and build() of
\* a builder in that state succeeds with date = string = "No date",
\* timezone = "null", is_recurring false and no_date true.
C13_NoDateWins ==
    /\ [](entity = "DueDate" /\ builder.no_date =>
              /\ \E lang \in SupportedLang_supported_lang :
                     DueDateBuilder_build(builder) = Ok(NoDateDueDate(lang))
              /\ built # NoResult => built = DueDateBuilder_build(builder))
    /\ [][ /\ Call_DueDateBuilder_no_date(TRUE) =>
                  builder'.no_date /\ ~builder'.is_recurring
           /\ \A value \in BOOLEAN :
                  Call_DueDateBuilder_is_recurring(value) /\ builder.no_date =>
                      builder'.no_date /\ ~builder'.is_recurring ]_vars

\* is_recurring(..) was called after no_date(..) and dropped, and build()
\* returned the no-date DueDate
C13_Witness ==
    /\ entity = "DueDate"
    /\ builder.no_date
    /\ diagnostic = Some("'no_date' is set, not marking DueDate as recurring")
    /\ built = Ok(NoDateDueDate("en"))

\* the locale a DueDate is committed with after lang(value) was the last
\* lang call
CommittedLang(value) ==
    IF value \in SupportedLang_supported_lang THEN value ELSE "en"

\* C14: the lang of every committed DueDate is one of the 14 supported codes:
\* "en" while lang was never called, the code of the last lang(code) call
\* when that code is supported and "en" when it is not; no other call changes
\* the locale, and lang(..) never changes whether build() succeeds.
C14_LangSupported ==
    /\ [](entity = "DueDate" =>
              /\ Cardinality(SupportedLang_supported_lang) = 14
              /\ IsOk(built) =>
                     /\ Val(built).lang \in SupportedLang_supported_lang
                     /\ Val(built).lang =
                            IF builder.lang = None THEN "en" ELSE Unwrap(builder.lang))
    /\ [][ /\ \A value \in SupportedLang_supported_lang \cup UnsupportedLangs :
                  Call_DueDateBuilder_lang(value) =>
                      /\ builder'.lang = Some(CommittedLang(value))
                      /\ SameExcept(builder, builder', {"lang"})
                      /\ IsOk(DueDateBuilder_build(builder'))
                             <=> IsOk(DueDateBuilder_build(builder))
                      /\ IsOk(DueDateBuilder_build(builder')) =>
                             Val(DueDateBuilder_build(builder')).lang = CommittedLang(value)
           /\ ( /\ entity = "DueDate"
                /\ ~Call_DueDate_builder
                /\ \A value \in SupportedLang_supported_lang \cup UnsupportedLangs :
                       ~Call_DueDateBuilder_lang(value) ) =>
                  builder'.lang = builder.lang ]_vars

\* a DueDate was committed with a supported locale other than "en"
C14_SupportedCommitted ==
    /\ entity = "DueDate"
    /\ builder.lang = Some("fr")
    /\ IsOk(built)
    /\ Val(built).lang = "fr"

\* lang(..) was called with an unsupported code, and the DueDate was committed
\* with "en"
C14_Witness ==
    /\ entity = "DueDate"
    /\ diagnostic = Some("Unsupported language, defaulting to 'en'")
    /\ IsOk(built)
    /\ Val(built).lang = "en"

\* the message build() refuses a DueDateBuilder without date with
NoDateMessage == "No date given but no_date field is unset"

\* C15: whenever the DueDateBuilder holds no date, no string and no_date
\* false (a fresh builder, or one on which only is_recurring and lang were
\* called), build() fails with "No date given but no_date field is unset" and
\* returns no DueDate.
C15_NeitherDateNorNoDate ==
    entity = "DueDate" /\ ~builder.no_date
            /\ builder.date = None /\ builder.string = None =>
        /\ DueDateBuilder_build(builder) = Err(NoDateMessage)
        /\ built # NoResult =>
               /\ built = Err(NoDateMessage)
               /\ ~IsOk(built)
               /\ built.val = <<>>

\* only is_recurring and lang were called, and build() refused the builder
C15_Witness ==
    /\ entity = "DueDate"
    /\ ~builder.no_date
    /\ builder.is_recurring
    /\ IsSome(builder.lang)
    /\ built = Err(NoDateMessage)

\* C16: no_date(false) called on a DueDateBuilder whose no_date flag is false
\* leaves the flag false and is_recurring as it was, and build() of the
\* builder still fails with "No date given but no_date field is unset".
C16_NoDateFalseIsNoOp ==
    [][ Call_DueDateBuilder_no_date(FALSE) /\ ~builder.no_date =>
            /\ ~builder'.no_date
            /\ builder'.is_recurring = builder.is_recurring
            /\ DueDateBuilder_build(builder') = Err(NoDateMessage) ]_vars

\* C17: is_recurring(v) changes no field of a DueDateBuilder whose no_date
\* flag is true; on any other builder it sets is_recurring to v and changes
\* no other field.
C17_RecurringFrame ==
    [][ \A value \in BOOLEAN :
            Call_DueDateBuilder_is_recurring(value) =>
                IF builder.no_date
                THEN builder' = builder
                ELSE /\ builder'.is_recurring = value
                     /\ SameExcept(builder, builder', {"is_recurring"}) ]_vars

\* is_recurring(..) set the flag of a builder that is not in the no-date state
C17_RecurringSet ==
    /\ entity = "DueDate"
    /\ ~builder.no_date
    /\ builder.is_recurring
    /\ diagnostic = None

\* is_recurring(..) was called on a builder in the no-date state and dropped
C17_Witness ==
    /\ entity = "DueDate"
    /\ builder.no_date
    /\ ~builder.is_recurring
    /\ diagnostic = Some("'no_date' is set, not marking DueDate as recurring")
    /\ built = NoResult

\* the labels a builder would commit
LabelsOf(b) == IF IsSome(b.labels) THEN Unwrap(b.labels) ELSE <<>>

\* C18: after label_remove(id), from a builder whose labels are unset,
\* present and empty, or not empty, the labels field is unset or a list that
\* is not empty; removing the only label left, or removing from an empty
\* list, leaves the field unset, and build() of a builder with the field
\* unset returns an Item with an empty label list.
C18_NeverPresentEmpty ==
    /\ [](entity = "Item" /\ builder.labels = None /\ IsOk(built) =>
              Val(built).labels = <<>>)
    /\ [][ \A id \in ManyLabelIds :
               Call_ItemBuilder_label_remove(id) =>
                   /\ builder'.labels # Some(<<>>)
                   /\ builder.labels \in {None, Some(<<>>), Some(<<id>>)} =>
                          builder'.labels = None
                   /\ (IsSome(builder.labels) /\ Len(Unwrap(builder.labels)) > 1) =>
                          IsSome(builder'.labels)
                   /\ SameExcept(builder, builder', {"labels"}) ]_vars

\* a builder derived from a committed Item (its child order is present and
\* 0) had its labels removed: the field is unset, and build() returned an
\* Item without labels
C18_Witness ==
    /\ entity = "Item"
    /\ builder.child_order = Some(0)
    /\ builder.labels = None
    /\ IsOk(built)
    /\ Val(built).labels = <<>>

\* the label ids in the list labels
Members(labels) == {labels[i] : i \in 1..Len(labels)}

\* C19: after label_remove(id), whatever label_add and label_remove calls
\* came before it (the same id added more than once included), id is not
\* among the builder's labels, nor among the labels of the Item build()
\* returns for it.
C19_RemovedIsGone ==
    [][ \A id \in ManyLabelIds :
            Call_ItemBuilder_label_remove(id) =>
                /\ id \notin Members(LabelsOf(builder'))
                /\ IsOk(ItemBuilder_build(builder')) =>
                       id \notin Members(Val(ItemBuilder_build(builder')).labels) ]_vars

\* the list labels without its element at position pos
RemoveAt(labels, pos) ==
    [i \in 1..(Len(labels) - 1) |-> IF i < pos THEN labels[i] ELSE labels[i + 1]]

\* how many times id occurs in the list labels
Count(labels, id) == Cardinality({i \in 1..Len(labels) : labels[i] = id})

\* label_add(id) put id at the end of the list and left the labels before it
AddedAtEnd(old, new, id) ==
    /\ Len(new) = Len(old) + 1
    /\ new[Len(new)] = id
    /\ \A i \in 1..Len(old) : new[i] = old[i]

\* C20 as stated: label_add appends at the end, and label_remove(id) of a
\* present id leaves the other labels in the order they had, wherever in the
\* list the removed label was.
C20_RemoveKeepsOrder ==
    [][ \A id \in ManyLabelIds :
            /\ Call_ItemBuilder_label_add(id) =>
                   AddedAtEnd(LabelsOf(builder), LabelsOf(builder'), id)
            /\ (Call_ItemBuilder_label_remove(id) /\ id \in Members(LabelsOf(builder))) =>
                   \E pos \in 1..Len(LabelsOf(builder)) :
                       /\ LabelsOf(builder)[pos] = id
                       /\ LabelsOf(builder') = RemoveAt(LabelsOf(builder), pos) ]_vars

\* C20 (amended): label_add appends at the end.  label_remove(id) of a present
\* id takes out its first occurrence: the list gets one shorter and loses one
\* occurrence of id and nothing else, and the labels before the removed one
\* keep their places.  The labels keep their order when the removed one was
\* the last or the last but one of the list (adding 1, 2, 3 then removing 3
\* yields [1, 2]); otherwise the last label of the list takes the place of the
\* removed one.
C20_RemoveMovesLast ==
    [][ \A id \in ManyLabelIds :
            /\ Call_ItemBuilder_label_add(id) =>
                   AddedAtEnd(LabelsOf(builder), LabelsOf(builder'), id)
            /\ (Call_ItemBuilder_label_remove(id) /\ id \in Members(LabelsOf(builder))) =>
                   LET old == LabelsOf(builder)
                       new == LabelsOf(builder')
                       pos == CHOOSE i \in 1..Len(old) :
                                  old[i] = id /\ \A j \in 1..(i - 1) : old[j] # id
                   IN  /\ Len(new) = Len(old) - 1
                       /\ Count(new, id) = Count(old, id) - 1
                       /\ \A other \in ManyLabelIds \ {id} :
                              Count(new, other) = Count(old, other)
                       /\ \A i \in 1..(pos - 1) : new[i] = old[i]
                       /\ pos >= Len(old) - 1 => new = RemoveAt(old, pos)
                       /\ pos < Len(old) - 1 =>
                              /\ new[pos] = old[Len(old)]
                              /\ \A i \in (pos + 1)..Len(new) : new[i] = old[i] ]_vars

\* the builder holds the labels 3, 2, what label_remove(1) leaves of the
\* labels 1, 2, 3, and build() committed them in that order
C20_Witness ==
    /\ entity = "Item"
    /\ builder.labels = Some(<<3, 2>>)
    /\ IsOk(built)
    /\ Val(built).labels = <<3, 2>>

\* the value build() commits for an optional field: the one set, or dflt
SetOr(field, dflt) == IF IsSome(field) THEN Unwrap(field) ELSE dflt

\* only owner id, project id, content and creation date were set
OnlyRequiredSet(b) ==
    /\ ItemRequiredSet(b)
    /\ SameExcept(ItemBuilder_default, b,
                  {"user_id", "project_id", "content", "date_added"})

\* C21: build() of an ItemBuilder on which only owner id, project id, content
\* and creation date were set succeeds with id absent, due the no-date
\* DueDate with lang "en", priority P4, child_order 0, day_order 0, no labels,
\* no parent or section id, collapsed, checked and is_deleted false and no
\* completion date; every Item build() returns holds, field by field, the
\* value that was set, or the default where none was.
C21_ItemDefaults ==
    entity = "Item" /\ IsOk(built) =>
        LET item == Val(built)
        IN  /\ item.id = builder.id
            /\ item.user_id = Unwrap(builder.user_id)
            /\ item.project_id = Unwrap(builder.project_id)
            /\ item.content = Unwrap(builder.content)
            /\ item.date_added = Unwrap(builder.date_added)
            /\ item.description = builder.description
            /\ item.due = SetOr(builder.due, NoDateDueDate("en"))
            /\ item.priority = SetOr(builder.priority, "P4")
            /\ item.parent_id = builder.parent_id
            /\ item.child_order = SetOr(builder.child_order, 0)
            /\ item.section_id = builder.section_id
            /\ item.day_order = SetOr(builder.day_order, 0)
            /\ item.collapsed = builder.collapsed
            /\ item.labels = SetOr(builder.labels, <<>>)
            /\ item.checked = builder.checked
            /\ item.is_deleted = builder.is_deleted
            /\ item.date_completed = builder.date_completed
            /\ OnlyRequiredSet(builder) =>
                   /\ item.id = None
                   /\ item.due = NoDateDueDate("en")
                   /\ item.priority = "P4"
                   /\ item.child_order = 0 /\ item.day_order = 0
                   /\ item.labels = <<>>
                   /\ item.parent_id = None /\ item.section_id = None
                   /\ item.description = None
                   /\ ~item.collapsed /\ ~item.checked /\ ~item.is_deleted
                   /\ item.date_completed = None

\* build() committed a builder on which only the required fields were set
C21_Witness ==
    /\ entity = "Item"
    /\ OnlyRequiredSet(builder)
    /\ IsOk(built)
    /\ Val(built).priority = "P4"
    /\ Val(built).due = NoDateDueDate("en")

\* build() committed a priority and a due date that were set
C21_SetCommitted ==
    /\ entity = "Item"
    /\ builder.priority = Some("P1")
    /\ IsSome(builder.due) /\ Unwrap(builder.due).lang = "fr"
    /\ IsOk(built)
    /\ Val(built).priority = "P1"
    /\ Val(built).due.lang = "fr"

\* a build() call of the session's builder returns
BuildStep ==
    \/ Call_ItemBuilder_build
    \/ Call_ProjectBuilder_build
    \/ Call_SectionBuilder_build
    \/ Call_LabelBuilder_build
    \/ Call_DueDateBuilder_build
    \/ Call_FilterBuilder_build

C23_RequiredFieldsOnly ==
    /\ entity = "Label" /\ built # NoResult =>
           IF builder.name = None
           THEN built = Err("Label must have a name.")
           ELSE /\ IsOk(built)
                /\ Val(built).name = Unwrap(builder.name)
                /\ Val(built).color = SetOr(builder.color, "Grey")
                /\ Val(built).item_order = builder.item_order
    /\ entity = "Filter" /\ built # NoResult =>
           IF builder.name = None
           THEN built = Err("No name set for filter")
           ELSE IF builder.query = None
           THEN built = Err("No query set for filter")
           ELSE /\ IsOk(built)
                /\ Val(built).name = Unwrap(builder.name)
                /\ Val(built).query = Unwrap(builder.query)
                /\ Val(built).color = builder.color
                /\ Val(built).item_order = builder.item_order
    /\ LabelBuilder_default.item_order = 0
    /\ FilterBuilder_default.color = "Grey" /\ FilterBuilder_default.item_order = 0
    /\ \A name \in Names, query \in Queries :
           LET filter == Val(FilterBuilder_build(FilterBuilder_query(
                                 FilterBuilder_name(FilterBuilder_default, name), query)))
               label == Val(LabelBuilder_build(LabelBuilder_name(LabelBuilder_default, name)))
           IN  /\ filter.color = "Grey" /\ filter.item_order = 0
               /\ label.color = "Grey" /\ label.item_order = 0

\* build() refused a Filter builder with neither name nor query, other
\* fields being set
C23_Witness ==
    /\ entity = "Filter"
    /\ builder.name = None /\ builder.query = None
    /\ IsSome(builder.id) /\ builder.color = "BerryRed"
    /\ built = Err("No name set for filter")

\* build() refused a Label builder without name, and committed one with a name
\* and a color
C23_LabelWitness ==
    /\ entity = "Label"
    /\ \/ builder.name = None /\ IsSome(builder.color) /\ built = Err("Label must have a name.")
       \/ IsSome(builder.name) /\ IsOk(built) /\ Val(built).color = "BerryRed"

\* C24: inbox_project(false) changes the inbox_project flag only and leaves
\* the name as it was: a builder without name still fails build() with
\* "Project has no name." after it, and a builder named "Foo" commits with the
\* name "Foo".
C24_InboxFalseKeepsName ==
    [][ Call_ProjectBuilder_inbox_project(FALSE) =>
            /\ builder'.name = builder.name
            /\ ~builder'.inbox_project
            /\ SameExcept(builder, builder', {"inbox_project"})
            /\ builder.name = None =>
                   ProjectBuilder_build(builder') = Err("Project has no name.")
            /\ builder.name = Some("Foo") =>
                   /\ IsOk(ProjectBuilder_build(builder'))
                   /\ Val(ProjectBuilder_build(builder')).name = "Foo" ]_vars

\* setter calls that make an ItemBuilder committable: the required fields,
\* then checked(..) to agree with the completion date held
ItemRepair(b) ==
    LET required == ItemBuilder_date_added(
                        ItemBuilder_content(
                            ItemBuilder_project_id(ItemBuilder_user_id(b, 1), 1),
                            "Lorem ipsum"),
                        "1999-01-01")
    IN  ItemBuilder_checked(required, IsSome(b.date_completed))

\* setter calls that make a ProjectBuilder committable
ProjectRepair(b) ==
    IF b.inbox_project
    THEN ProjectBuilder_name(b, "Inbox")
    ELSE ProjectBuilder_name(b, "Foo")

\* setter calls that make a SectionBuilder committable: the required fields,
\* then an archive date where the builder is archived without one
SectionRepair(b) ==
    LET required == SectionBuilder_date_added(
                        SectionBuilder_project_id(SectionBuilder_name(b, "Foo"), 1),
                        "1999-01-01")
    IN  IF required.is_archived /\ required.date_archived = None
        THEN SectionBuilder_date_archived(required, "2000-01-01")
        ELSE required

\* setter calls, none of them aborting, after which build() of the builder b
\* of entity e succeeds
Repair(e, b) ==
    CASE e = "Item" -> ItemRepair(b)
      [] e = "Project" -> ProjectRepair(b)
      [] e = "Section" -> SectionRepair(b)
      [] e = "Label" -> LabelBuilder_name(b, "Foo")
      [] e = "Filter" -> FilterBuilder_query(FilterBuilder_name(b, "Foo"), "today | overdue")
      [] e = "DueDate" -> DueDateBuilder_no_date(b, TRUE)

\* C25: every builder state that setter calls reach, from a fresh builder or
\* from one derived from a committed record, and that build() refuses, is
\* brought by a finite sequence of setter calls on the same builder, none of
\* them aborting, to a state that build() commits (DueDate, Item, Project,
\* Section, Label and Filter builders).
C25_Recoverable ==
    IsErr(Build(entity, builder)) => IsOk(Build(entity, Repair(entity, builder)))

\* build() refused an unchecked ItemBuilder that holds a completion date: no
\* setter takes the date away, checked(true) is the way back
C25_Witness ==
    /\ entity = "Item"
    /\ IsSome(builder.date_completed)
    /\ ~builder.checked
    /\ built = Err("Uncompleted task can't have a completion date")
    /\ IsOk(ItemBuilder_build(ItemRepair(builder)))

\* C26: in every SectionBuilder state that setter calls reach from a fresh
\* builder or from to_builder() of a committed Section, an archive date being
\* present implies is_archived; build() never returns "Section has archive
\* date but not marked as archived.".
C26_DateImpliesArchived ==
    entity = "Section" =>
        /\ IsSome(builder.date_archived) => builder.is_archived
        /\ SectionBuilder_build(builder)
               # Err("Section has archive date but not marked as archived.")
        /\ built # Err("Section has archive date but not marked as archived.")
        /\ IsOk(derived) =>
               (IsSome(Val(derived).date_archived) => Val(derived).is_archived)

\* date_archived(..) was called on a builder that was not archived: it set the
\* flag, and build() committed the archived Section
C26_Witness ==
    /\ entity = "Section"
    /\ diagnostic = Some("Section is not archived with archive date, marking as archived")
    /\ IsSome(builder.date_archived)
    /\ builder.is_archived
    /\ IsOk(built)

\* C27: in every DueDateBuilder state that no_date, is_recurring and lang calls
\* reach from a fresh builder, no_date implies is_recurring false, and date
\* and string are unset; no call on the builder takes the no_date flag back
\* to false; build() succeeds exactly when the flag is true, and every
\* committed DueDate has no_date true and is_recurring false.
C27_NoDateState ==
    /\ [](entity = "DueDate" =>
              /\ builder.no_date => ~builder.is_recurring
              /\ builder.date = None /\ builder.string = None
              /\ IsOk(DueDateBuilder_build(builder)) <=> builder.no_date
              /\ built # NoResult => (IsOk(built) <=> builder.no_date)
              /\ IsOk(built) => Val(built).no_date /\ ~Val(built).is_recurring)
    /\ [][ (entity = "DueDate" /\ builder.no_date /\ ~Call_DueDate_builder) =>
               builder'.no_date ]_vars

\* no_date(..) was called on a recurring builder: it cleared the flag, and
\* build() committed the DueDate
C27_Witness ==
    /\ entity = "DueDate"
    /\ diagnostic = Some("Even with no date can't be recurring")
    /\ builder.no_date
    /\ ~builder.is_recurring
    /\ IsOk(built)
    /\ Val(built).no_date

\* no call on the ItemBuilder takes a completion date away: the builder keeps
\* one until the session starts over with Item::builder()
CompletionDateStays ==
    (entity = "Item" /\ IsSome(builder.date_completed) /\ ~Call_Item_builder) =>
        IsSome(builder'.date_completed)

\* C28 as stated: no setter clears date_completed; while the builder holds a
\* completion date, every build() that succeeds yields checked true with the
\* completion date, and every build() made while checked is false fails with
\* "Uncompleted task can't have a completion date".
C28_StickyAlwaysReported ==
    /\ [](entity = "Item" /\ IsSome(builder.date_completed) /\ built # NoResult =>
              IF builder.checked
              THEN IsOk(built) =>
                       Val(built).checked /\ IsSome(Val(built).date_completed)
              ELSE built = Err("Uncompleted task can't have a completion date"))
    /\ [][CompletionDateStays]_vars

\* C28 (amended): no setter clears date_completed; while the builder holds a
\* completion date, every build() that succeeds yields checked true with the
\* completion date, and every build() made while checked is false fails: with
\* "Uncompleted task can't have a completion date" when owner id, project id
\* and content are set, and with the message of the first unset one of the
\* three otherwise.
C28_StickyCompletionDate ==
    /\ [](entity = "Item" /\ IsSome(builder.date_completed) /\ built # NoResult =>
              IF builder.checked
              THEN IsOk(built) =>
                       /\ Val(built).checked
                       /\ Val(built).date_completed = builder.date_completed
              ELSE IF builder.user_id = None \/ builder.project_id = None
                          \/ builder.content = None
              THEN built = Err(ItemFirstUnset(builder))
              ELSE built = Err("Uncompleted task can't have a completion date"))
    /\ [][CompletionDateStays]_vars

\* a builder derived from a completed Item (its child order is present and 0)
\* was unchecked, and build() refused it
C28_Witness ==
    /\ entity = "Item"
    /\ builder.child_order = Some(0)
    /\ IsSome(builder.date_completed)
    /\ ~builder.checked
    /\ built = Err("Uncompleted task can't have a completion date")

\* checked(true) was called again, and build() committed the completed Item
C28_CheckedAgain ==
    /\ entity = "Item"
    /\ builder.child_order = Some(0)
    /\ IsSome(builder.date_completed)
    /\ builder.checked
    /\ origin = None
    /\ IsOk(built)

\* C29: label_add(x) immediately followed by label_remove(x) leaves the label
\* list that build() commits, contents and order, as it was before the two
\* calls, also when x was in the list before; so for every reachable builder,
\* and after every label_add(x) step for the builder it started from.
C29_AddRemoveInverse ==
    /\ [](entity = "Item" =>
              \A x \in ManyLabelIds :
                  LET after == ItemBuilder_label_remove(
                                   ItemBuilder_label_add(builder, x), x)
                  IN  /\ LabelsOf(after) = LabelsOf(builder)
                      /\ IsOk(ItemBuilder_build(builder)) =>
                             /\ IsOk(ItemBuilder_build(after))
                             /\ Val(ItemBuilder_build(after)).labels =
                                    Val(ItemBuilder_build(builder)).labels)
    /\ [][ \A x \in ManyLabelIds :
               Call_ItemBuilder_label_add(x) =>
                   LabelsOf(ItemBuilder_label_remove(builder', x)) =
                       LabelsOf(builder) ]_vars

\* label 1 was added to a list that held it in front of label 2; removing it
\* takes the first 1 out and the added 1 fills its place
C29_Witness ==
    /\ entity = "Item"
    /\ builder.labels = Some(<<1, 2, 1>>)
    /\ Position(Unwrap(builder.labels), 1) = 1
    /\ ItemBuilder_label_remove(builder, 1).labels = Some(<<1, 2>>)

\* label 3 was added to a list that did not hold it, and a builder that
\* committed before commits the same labels after the removal
C29_FreshLabel ==
    /\ entity = "Item"
    /\ builder.labels = Some(<<1, 2, 3>>)
    /\ IsOk(ItemBuilder_build(builder))
    /\ Val(ItemBuilder_build(ItemBuilder_label_remove(builder, 3))).labels = <<1, 2>>

====
